---- MODULE Spec2Model ----
(***************************************************************************)
(* A model of scripts/sct_process_segmentation.py: the vertebral-level     *)
(* mapper get_slices_matching_with_vertebral_levels_based_centerline and   *)
(* the cross-sectional-area pipeline compute_csa.                          *)
(*                                                                         *)
(* Conventions.                                                            *)
(*  - Volumes are indexed [x][z]; the second in-plane axis y is handled by *)
(*    the code exactly like x and is collapsed (py stays as a factor).     *)
(*  - In-plane centerline coordinates are kept in half voxels (x2 = 2*x),  *)
(*    so that the mean of two neighbouring columns is representable.       *)
(*  - A range string ("2:9") is kept as the list of its ':'-separated      *)
(*    fields, each field a sequence of characters.                         *)
(***************************************************************************)
EXTENDS Integers, Sequences, FiniteSets, TLC

\* ------------------------------------------------------------------ bounds
\* number of columns (in-plane) and of axial slices of every volume
NX == 2
NZ == 3
\* highest vertebral level code a labeling volume may hold
MaxLevel == 4

\* reals are kept in fixed point: the real v is the integer v * Scale, rounded down
Scale == 100
\* window size (in mm) used by the runs that smooth the CSA
SmoothingMm == 6
\* the labels of an image handed to check_distance_between_labels
MaxLabels == 3
\* the side of the cubic images given to sct_maths
MathsSide == 2

\* voxel size px, py, pz (mm) of every volume
PixDim == <<2, 1, 2>>
px == PixDim[1]
py == PixDim[2]
pz == PixDim[3]

XRange == 0..(NX - 1)
ZRange == 0..(NZ - 1)
Levels == 0..MaxLevel

\* ----------------------------------------------------------------- helpers
SeqMin(s) == CHOOSE m \in {s[i] : i \in 1..Len(s)} : \A j \in 1..Len(s) : m <= s[j]
SeqMax(s) == CHOOSE m \in {s[i] : i \in 1..Len(s)} : \A j \in 1..Len(s) : m >= s[j]
SetMin(S) == CHOOSE m \in S : \A n \in S : m <= n
SetMax(S) == CHOOSE m \in S : \A n \in S : m >= n
Abs(n) == IF n < 0 THEN 0 - n ELSE n

Sign(n) == IF n < 0 THEN 0 - 1 ELSE 1
RECURSIVE SortedSeq(_)
SortedSeq(S) == IF S = {} THEN <<>> ELSE <<SetMin(S)>> \o SortedSeq(S \ {SetMin(S)})

\* ------------------------------------------------------ fixed-point reals
NaN == 0 - (Scale * Scale * Scale)
IsNaN(v) == v = NaN
FromInt(n) == n * Scale
FAdd(a, b) == IF IsNaN(a) \/ IsNaN(b) THEN NaN ELSE a + b
FMul(a, b) == IF IsNaN(a) \/ IsNaN(b) THEN NaN
              ELSE Sign(a) * Sign(b) * ((Abs(a) * Abs(b)) \div Scale)
FDivInt(a, n) == IF IsNaN(a) \/ n = 0 THEN NaN ELSE Sign(a) * (Abs(a) \div n)
RECURSIVE FSum(_)
FSum(s) == IF s = <<>> THEN 0 ELSE FAdd(s[1], FSum(Tail(s)))

\* ----------------------------------------------------- strings of integers
DigitChars == <<"0", "1", "2", "3", "4", "5", "6", "7", "8", "9">>
IsDigit(c) == \E d \in 1..10 : DigitChars[d] = c
DigitValue(c) == (CHOOSE d \in 1..10 : DigitChars[d] = c) - 1

\* str(n) of a non-negative integer: its decimal digits
RECURSIVE str(_)
str(n) == IF n < 10 THEN <<DigitChars[n + 1]>>
          ELSE str(n \div 10) \o <<DigitChars[(n % 10) + 1]>>

\* int(field) succeeds on a non-empty run of digits, and raises ValueError otherwise
IsNumeric(field) == Len(field) > 0 /\ \A i \in 1..Len(field) : IsDigit(field[i])
RECURSIVE int(_)
int(field) == IF Len(field) = 1 THEN DigitValue(field[1])
              ELSE 10 * int(SubSeq(field, 1, Len(field) - 1)) + DigitValue(field[Len(field)])

\* np.round: round half to even; x2 is the coordinate in half voxels
npRound(x2) == IF x2 % 2 = 0 THEN x2 \div 2
               ELSE IF (x2 \div 2) % 2 = 0 THEN x2 \div 2 ELSE (x2 \div 2) + 1

\* ------------------------------------------------------------------- state
VARIABLES
    pc,                       \* position of the run
    err,                      \* "" or the exception / exit that ended the run
    \* ---- get_slices_matching_with_vertebral_levels_based_centerline
    vertebral_levels,         \* the -vert string, as its ':'-separated fields
    vertebral_labeling_data,  \* labeling volume [x][z] -> level code, 0 = unlabeled
    x_centerline_fit,         \* fitted centerline, in half voxels, one per sample
    z_centerline,             \* slice index of every centerline sample
    vert_levels_list,         \* [start_level, end_level] being resolved
    warning,                  \* warnings recorded for the output file
    slices,                   \* the slice range "min:max", as its fields
    \* ---- main: the options passed to the process
    name_process,             \* "csa", "centerline" or "length"
    segmentation,             \* data of the segmentation file [x][z], fixed point
    data_seg,                 \* the segmentation as compute_csa holds it in memory
    seg_dtype,                \* numeric type the segmentation is stored in
    fname_vertebral_labeling, \* "" or the path of the labeling file
    smoothing_param,          \* window size in mm, 0 for no smoothing
    remove_temp_files,        \* the -r option: 1, or 0 to keep the temporary folder
    algo_fitting,             \* "hanning" or "nurbs"
    tangent_z,                \* z component of the tangents the nurbs fit returns
    \* ---- compute_csa: locals and outputs
    min_z_index, max_z_index,
    x_centerline_deriv, z_centerline_deriv,
    csa,                      \* CSA per slice, fixed point
    csa_raw,                  \* the CSA array as it left the slice loop
    csa_per_slice_file,       \* rows of <prefix>_csa_per_slice.txt
    csa_volume_file,          \* data of <prefix>_csa_volume.nii.gz
    results_files,            \* the files written by save_results, in order
    tmp_folder,               \* whether the temporary folder exists
    printed,                  \* warnings printed on the terminal
    \* ---- extract_centerline and compute_length: outputs
    centerline_data,          \* data of <file>_centerline.nii.gz
    centerline_file,          \* rows of <file>_centerline.txt
    result_length,            \* length returned by compute_length, fixed point
    \* ---- sct_label_utils
    label_function,           \* the label function chosen on the command line
    label_o,                  \* "" or the file name given with -o
    label_img,                \* data of the input image, one value per voxel
    label_saved,              \* the image files the run has written
    coordinates_input,        \* check_distance_between_labels: the labels of the image
    max_dist_mm,              \* check_distance_between_labels: the distance allowed
    distance_warnings,        \* the pairs (index of the first label) a warning names
    \* ---- sct_maths
    arguments_sub,            \* the number given with -sub, or None
    arguments_symmetrize,     \* the dimension given with -symmetrize, or None
    arguments_type,           \* the type given with -type, or "None"
    maths_data,               \* im.data, the data of the input image
    maths_saved,              \* the images the run has saved: data and dtype asked
    \* ---- deepseg: segment_nifti
    param_threshold,          \* param.threshold: None or a real
    param_keep_largest_object, \* param.keep_largest_object
    metadata,                 \* the json metadata of the model: its keys and threshold
    prediction,               \* what imed.utils.segment_volume returns
    axcodes,                  \* the axis codes of the affine of the prediction
    threshold,                \* the local variable threshold
    deepseg_saved,            \* the images written by nib.save
    deepseg_log,              \* the warnings logged
    \* ---- sct_compute_mtsat
    argv,                     \* the scan parameters given on the command line, or None
    args,                     \* the namespace of main: the scan parameters in use
    images,                   \* per image: its extension and its json sidecar
    sidecar_reads,            \* the options get_json_file_name was called for
    compute_mtsat_calls       \* the scan parameters of the calls of compute_mtsat

vertVars == <<vertebral_levels, vertebral_labeling_data, x_centerline_fit, z_centerline,
              vert_levels_list, warning, slices>>
csaParams == <<name_process, segmentation, seg_dtype, fname_vertebral_labeling, smoothing_param, remove_temp_files,
               algo_fitting, tangent_z>>
csaLocals == <<data_seg, min_z_index, max_z_index, x_centerline_deriv, z_centerline_deriv,
               csa, csa_raw, csa_per_slice_file, csa_volume_file, results_files,
               tmp_folder, printed>>
procOutputs == <<centerline_data, centerline_file, result_length>>
labelVars == <<label_function, label_o, label_img, label_saved, coordinates_input,
              max_dist_mm, distance_warnings>>
\* the state of the scripts other than sct_process_segmentation
mathsVars == <<arguments_sub, arguments_symmetrize, arguments_type, maths_data, maths_saved>>
deepsegVars == <<param_threshold, param_keep_largest_object, metadata, prediction, axcodes,
                 threshold, deepseg_saved, deepseg_log>>
mtsatVars == <<argv, args, images, sidecar_reads, compute_mtsat_calls>>
otherScripts == <<labelVars, mathsVars, deepsegVars, mtsatVars>>
vars == <<pc, err, vertVars, csaParams, csaLocals, procOutputs, otherScripts>>

\* the empty string '', whose split(':') is one empty field
EmptyString == << <<>> >>

\* ------------------------------------- get_slices_matching_with_vertebral_...
\* line 684: the range is refused when it has more than two values or start > end
RangeIsRefused(l) == Len(l) > 2 \/ l[1] > l[2]

\* lines 677-685: the outcome of parsing the -vert string
ParseLevels(fields) ==
    IF \E i \in 1..Len(fields) : ~IsNumeric(fields[i])
    THEN [outcome |-> "ValueError", list |-> <<>>]
    ELSE LET parsed == [i \in 1..Len(fields) |-> int(fields[i])]
             l == IF Len(parsed) = 1 THEN <<parsed[1], parsed[1]>> ELSE parsed
         IN  [outcome |-> IF RangeIsRefused(l) THEN "exit" ELSE "ok", list |-> l]

\* line 688: the distinct level codes > 0 of the labeling volume
LevelsAvailable(data) == {data[x][z] : x \in XRange, z \in ZRange} \ {0}

Warn(msg, level) == [msg |-> msg, level |-> level]

\* mutant of ClampBottom: the comparison lets the lowest level itself be "clamped"
ClampBottom_AtOrBelow(r, avail) ==
    IF r.list[1] <= SetMin(avail)
    THEN [r EXCEPT !.list[1] = SetMin(avail),
                   !.warning = Append(r.warning,
                       Warn("bottom level lower to the lowest level available", SetMin(avail)))]
    ELSE r

\* lines 694-701
ClampBottom(r, avail) ==
    IF r.list[1] < SetMin(avail)
    THEN [r EXCEPT !.list[1] = SetMin(avail),
                   !.warning = Append(r.warning,
                       Warn("bottom level lower to the lowest level available", SetMin(avail)))]
    ELSE r

\* mutant of ClampTop: the top is clamped to the lowest available level
ClampTop_ToLowest(r, avail) ==
    IF r.list[2] > SetMax(avail)
    THEN [r EXCEPT !.list[2] = SetMin(avail),
                   !.warning = Append(r.warning,
                       Warn("top level higher to the highest level available", SetMin(avail)))]
    ELSE r

\* lines 703-711
ClampTop(r, avail) ==
    IF r.list[2] > SetMax(avail)
    THEN [r EXCEPT !.list[2] = SetMax(avail),
                   !.warning = Append(r.warning,
                       Warn("top level higher to the highest level available", SetMax(avail)))]
    ELSE r

\* lines 714-717: the elements of the available levels selected by the boolean
\* mask distance == distance_min_among_negative_value
BottomSelection(v, avail) ==
    LET distance == {a - v : a \in avail}
        negative == {d \in distance : d < 0}
        distance_min_among_negative_value == SetMin({Abs(d) : d \in negative})
    IN  {a \in avail : a - v = distance_min_among_negative_value}

\* lines 713-723: int() of an array that is not of length 1 raises TypeError
SnapBottom(r, avail) ==
    IF r.outcome # "ok" \/ r.list[1] \in avail THEN r
    ELSE IF {a \in avail : a < r.list[1]} = {} THEN [r EXCEPT !.outcome = "ValueError"]
    ELSE LET sel == BottomSelection(r.list[1], avail)
         IN  IF Cardinality(sel) # 1 THEN [r EXCEPT !.outcome = "TypeError"]
             ELSE LET lev == CHOOSE a \in sel : TRUE
                  IN  [r EXCEPT !.list[1] = lev,
                                !.warning = Append(r.warning,
                                    Warn("bottom level not available, nearest inferior level", lev))]

\* lines 726-729
TopSelection(v, avail) ==
    LET distance == {a - v : a \in avail}
        positive == {d \in distance : d > 0}
        distance_min_among_positive_value == SetMin({Abs(d) : d \in positive})
    IN  {a \in avail : a - v = distance_min_among_positive_value}

\* lines 725-735
SnapTop(r, avail) ==
    IF r.outcome # "ok" \/ r.list[2] \in avail THEN r
    ELSE IF {a \in avail : a > r.list[2]} = {} THEN [r EXCEPT !.outcome = "ValueError"]
    ELSE LET sel == TopSelection(r.list[2], avail)
         IN  IF Cardinality(sel) # 1 THEN [r EXCEPT !.outcome = "TypeError"]
             ELSE LET lev == CHOOSE a \in sel : TRUE
                  IN  [r EXCEPT !.list[2] = lev,
                                !.warning = Append(r.warning,
                                    Warn("top level not available, nearest superior level", lev))]

\* lines 687-735: min() of no available level raises ValueError
ResolveLevels(l, data) ==
    LET avail == LevelsAvailable(data)
        r0 == [outcome |-> "ok", list |-> l, warning |-> <<>>]
    IN  IF avail = {} THEN [r0 EXCEPT !.outcome = "ValueError"]
        ELSE SnapTop(SnapBottom(ClampTop(ClampBottom(r0, avail), avail), avail), avail)

\* line 743: the level code under centerline sample i
LevelAtSample(data, xfit, zc, i) == data[npRound(xfit[i])][zc[i]]

\* mutant of InRequestedLevels: range(start, end) leaves the end level out
InRequestedLevels_EndExcluded(lev, l) == lev \in l[1]..(l[2] - 1)

\* line 743: the centerline is in the vertebral levels asked by the user
InRequestedLevels(lev, l) == lev \in l[1]..l[2]

\* lines 739-744
RECURSIVE MatchingSlices(_, _, _, _, _)
MatchingSlices(data, xfit, zc, l, n) ==
    IF n = 0 THEN <<>>
    ELSE LET before == MatchingSlices(data, xfit, zc, l, n - 1)
         IN  IF InRequestedLevels(LevelAtSample(data, xfit, zc, n), l)
             THEN Append(before, zc[n]) ELSE before

\* line 747
SliceRangeString(matching) == <<str(SeqMin(matching)), str(SeqMax(matching))>>

\* lines 737-750: min() of an empty list raises ValueError
FindSlices(data, xfit, zc, l) ==
    LET matching == MatchingSlices(data, xfit, zc, l, Len(zc))
    IN  IF matching = <<>> THEN [outcome |-> "ValueError", slices |-> EmptyString]
        ELSE [outcome |-> "ok", slices |-> SliceRangeString(matching)]

\* The whole call, lines 674-750
Mapper(fields, data, xfit, zc) ==
    LET p == ParseLevels(fields)
        r == ResolveLevels(p.list, data)
        f == FindSlices(data, xfit, zc, r.list)
        none == [outcome |-> "", slices |-> EmptyString, vert_levels_list |-> <<>>,
                 warning |-> <<>>]
    IN  IF p.outcome # "ok" THEN [none EXCEPT !.outcome = p.outcome]
        ELSE IF r.outcome # "ok" THEN [none EXCEPT !.outcome = r.outcome]
        ELSE IF f.outcome # "ok" THEN [none EXCEPT !.outcome = f.outcome]
        ELSE [outcome |-> "ok", slices |-> f.slices, vert_levels_list |-> r.list,
              warning |-> r.warning]

\* ------------------------------------------------------------ compute_csa
\* smooth_centerline (sct_straighten_spinalcord) is not part of the sources: it is
\* modelled from the design description.  One sample per slice that holds
\* segmentation; x is the mean column of the slice; fewer than two samples fail.
ForegroundColumns(data, z) == {x \in XRange : data[x][z] > 0}
ForegroundSlices(data) == {z \in ZRange : ForegroundColumns(data, z) # {}}
RECURSIVE SumOfSet(_)
SumOfSet(S) == IF S = {} THEN 0 ELSE SetMin(S) + SumOfSet(S \ {SetMin(S)})
MeanColumn2(data, z) ==
    (2 * SumOfSet(ForegroundColumns(data, z))) \div Cardinality(ForegroundColumns(data, z))
\* finite differences of the fitted sequence
Differences(f) ==
    [i \in 1..Len(f) |-> IF i < Len(f) THEN f[i + 1] - f[i] ELSE f[i] - f[i - 1]]
smooth_centerline(data, algo, tz) ==
    LET zc == SortedSeq(ForegroundSlices(data))
        xfit == [i \in 1..Len(zc) |-> MeanColumn2(data, zc[i])]
    IN  IF Len(zc) < 2
        THEN [outcome |-> "InsufficientDataError", x_fit |-> <<>>, z |-> <<>>,
              x_deriv |-> <<>>, z_deriv |-> <<>>]
        ELSE [outcome |-> "ok", x_fit |-> xfit, z |-> zc,
              x_deriv |-> Differences(xfit),
              z_deriv |-> [i \in 1..Len(zc) |-> 2 * (IF algo = "hanning" THEN 1 ELSE tz)]]

\* lines 775-777: vect / norm, component by component; 0/0 is nan
NormComponent(c, n2) ==
    IF n2 = 0 THEN NaN
    ELSE Sign(c) * (CHOOSE r \in 0..Scale :
                        /\ r * r * n2 <= Scale * Scale * c * c
                        /\ (r + 1) * (r + 1) * n2 > Scale * Scale * c * c)
normalize(vect) ==
    LET n2 == vect[1] * vect[1] + vect[2] * vect[2] + vect[3] * vect[3]
    IN  [i \in 1..3 |-> NormComponent(vect[i], n2)]

\* line 481 and the np.cos(angle) of line 487: the angle is kept by its cosine,
\* the dot product of the normal with [0, 0, 1]
CosAngle(normal) == normal[3]

\* line 484
NumberVoxels(data, iz) == FSum([x \in 1..NX |-> data[x - 1][iz]])

\* line 487
SliceCsa(number_voxels, normal) == FMul(number_voxels * px * py, CosAngle(normal))

\* line 468
CsaZeros(lo, hi) == [i \in 1..(hi - lo + 1) |-> 0]

\* lines 470-487: the state of the loop after its first n iterations.  A failed
\* lookup of the derivative leaves normal as the previous iteration set it.
RECURSIVE CsaLoop(_, _, _, _, _, _)
CsaLoop(data, xderiv, zderiv, lo, hi, n) ==
    IF n = 0
    THEN [outcome |-> "ok", csa |-> CsaZeros(lo, hi), normal |-> <<>>, printed |-> {}]
    ELSE LET before == CsaLoop(data, xderiv, zderiv, lo, hi, n - 1)
             found == n <= Len(xderiv)
             normal == IF found THEN normalize(<<xderiv[n], 0, zderiv[n]>>)
                       ELSE before.normal
             shown == IF found THEN before.printed
                      ELSE before.printed \cup {"segmentation does not seem continuous"}
         IN  IF before.outcome # "ok" THEN before
             ELSE IF normal = <<>>
             THEN [before EXCEPT !.outcome = "NameError", !.printed = shown]
             ELSE IF n > Len(before.csa)
             THEN [before EXCEPT !.outcome = "IndexError", !.printed = shown]
             ELSE [outcome |-> "ok",
                   csa |-> [before.csa EXCEPT
                               ![n] = SliceCsa(NumberVoxels(data, lo + n - 1), normal)],
                   normal |-> normal, printed |-> shown]

\* msct_smooth.smoothing_window is not part of the sources: a normalized symmetric
\* window of window_len samples, truncated at the ends, as the design describes
smoothing_window(x, window_len) ==
    LET h == IF window_len < 1 THEN 0 ELSE (window_len - 1) \div 2
    IN  [i \in 1..Len(x) |->
            LET lo == IF i - h < 1 THEN 1 ELSE i - h
                hi == IF i + h > Len(x) THEN Len(x) ELSE i + h
            IN  FDivInt(FSum(SubSeq(x, lo, hi)), hi - lo + 1)]

SmoothCsa_FixedWindow(x, param) == smoothing_window(x, 3)
\* lines 490-508
SmoothCsa(x, param) == IF param # 0 THEN smoothing_window(x, param \div pz) ELSE x

\* str() of a float keeps StrDigits significant digits; float() reads them back
StrDigits == 12
RECURSIVE NumDigits(_)
NumDigits(n) == IF n < 10 THEN 1 ELSE 1 + NumDigits(n \div 10)
RECURSIVE PowerOfTen(_)
PowerOfTen(e) == IF e = 0 THEN 1 ELSE 10 * PowerOfTen(e - 1)
RoundSignificant(v, digits) ==
    LET unit == PowerOfTen(NumDigits(Abs(v)) - digits)
    IN  IF NumDigits(Abs(v)) <= digits THEN v
        ELSE Sign(v) * unit * ((Abs(v) + unit \div 2) \div unit)
FloatStr(v) == IF IsNaN(v) THEN NaN ELSE RoundSignificant(v, StrDigits)

PerSliceRows_WithoutLast(values, lo, hi) ==
    [k \in 1..(hi - lo) |-> [index |-> str(lo + k - 1), value |-> FloatStr(values[k])]]
\* lines 513-518: one row "index,value" per slice of range(min_z_index, max_z_index+1)
PerSliceRows(values, lo, hi) ==
    [k \in 1..(hi - lo + 1) |-> [index |-> str(lo + k - 1), value |-> FloatStr(values[k])]]

\* lines 524-533: segmentation voxels of the slices replaced by the CSA of the slice
CsaVolume(data, values, lo, hi) ==
    [x \in XRange |-> [z \in ZRange |->
        IF z \in lo..hi /\ data[x][z] > 0 THEN values[z - lo + 1] ELSE data[x][z]]]

\* line 524: astype(np.float32, copy=False) returns the array itself when it is
\* float32 already, and then the loop writes into data_seg
SegAfterCsaVolume(data, dtype, values, lo, hi) ==
    IF dtype = "float32" THEN CsaVolume(data, values, lo, hi) ELSE data

\* lines 586-587
ParseSlices(fields) ==
    IF ~IsNumeric(fields[1]) THEN [outcome |-> "ValueError", lo |-> 0, hi |-> 0]
    ELSE IF Len(fields) < 2 THEN [outcome |-> "IndexError", lo |-> 0, hi |-> 0]
    ELSE IF ~IsNumeric(fields[2]) THEN [outcome |-> "ValueError", lo |-> 0, hi |-> 0]
    ELSE [outcome |-> "ok", lo |-> int(fields[1]), hi |-> int(fields[2])]

\* lines 589-595: the values of the rows whose index is in slices_list
RECURSIVE SelectedCsa(_, _, _)
SelectedCsa(rows, lo, hi) ==
    IF rows = <<>> THEN <<>>
    ELSE IF int(rows[1].index) \in lo..hi
         THEN <<rows[1].value>> \o SelectedCsa(Tail(rows), lo, hi)
         ELSE SelectedCsa(Tail(rows), lo, hi)

\* line 598: np.mean, nan for no value
Mean(values) == FDivInt(FSum(values), Len(values))

\* line 599: np.std, the square root of the mean squared deviation
SquaredDeviations(values) ==
    [i \in 1..Len(values) |->
        IF IsNaN(values[i]) \/ IsNaN(Mean(values)) THEN NaN
        ELSE (values[i] - Mean(values)) * (values[i] - Mean(values))]
StdDenominator(n) == n
Std(values) ==
    LET variance == FDivInt(FSum(SquaredDeviations(values)), StdDenominator(Len(values)))
    IN  IF IsNaN(variance) THEN NaN
        ELSE CHOOSE r \in 0..(NX * px * py * Scale + Scale) :
                 r * r <= variance /\ (r + 1) * (r + 1) > variance

\* line 608: np.sum(data_seg[:, :, slices_list]); an index past the volume raises
VoxelsInSlices(data, lo, hi) ==
    FSum([k \in 1..(IF hi < lo THEN 0 ELSE hi - lo + 1) |-> NumberVoxels(data, lo + k - 1)])

\* lines 630-669: what save_results writes
AllString == << <<"A", "L", "L">> >>
save_results(fname_output, metric_name, mean, std, slices_of_interest, actual_vert, warning_vert_levels) ==
    [file |-> fname_output,
     metric |-> metric_name,
     warnings |-> IF actual_vert # <<>> THEN warning_vert_levels ELSE <<>>,
     vertebral_levels |-> IF actual_vert # <<>> THEN <<str(actual_vert[1]), str(actual_vert[2])>>
                          ELSE AllString,
     slices |-> IF slices_of_interest # EmptyString THEN slices_of_interest ELSE AllString,
     mean |-> mean,
     std |-> std]

\* --------------------------------------------- the mapper, one stage a step
\* A run that ends in an exception or in sys.exit stays at the stage that ended it,
\* with err naming the exception ("exit" for the exit of sct.printv(type='error')).
V_Parse ==
    /\ pc = "vert_parse" /\ err = ""
    /\ UNCHANGED <<procOutputs, otherScripts>>
    /\ \E p \in {ParseLevels(vertebral_levels)} :
           /\ vert_levels_list' = p.list
           /\ pc' = IF p.outcome = "ok" THEN "vert_resolve" ELSE pc
           /\ err' = IF p.outcome = "ok" THEN "" ELSE p.outcome
    /\ UNCHANGED <<vertebral_levels, vertebral_labeling_data, x_centerline_fit,
                   z_centerline, warning, slices, csaParams, csaLocals>>

V_Resolve ==
    /\ pc = "vert_resolve" /\ err = ""
    /\ UNCHANGED <<procOutputs, otherScripts>>
    /\ \E r \in {ResolveLevels(vert_levels_list, vertebral_labeling_data)} :
           /\ vert_levels_list' = r.list
           /\ warning' = r.warning
           /\ pc' = IF r.outcome = "ok" THEN "vert_find" ELSE pc
           /\ err' = IF r.outcome = "ok" THEN "" ELSE r.outcome
    /\ UNCHANGED <<vertebral_levels, vertebral_labeling_data, x_centerline_fit,
                   z_centerline, slices, csaParams, csaLocals>>

V_FindSlices ==
    /\ pc = "vert_find" /\ err = ""
    /\ UNCHANGED <<procOutputs, otherScripts>>
    /\ \E f \in {FindSlices(vertebral_labeling_data, x_centerline_fit, z_centerline,
                              vert_levels_list)} :
           /\ slices' = IF f.outcome = "ok" THEN f.slices ELSE slices
           /\ pc' = IF f.outcome = "ok" THEN "vert_returned" ELSE pc
           /\ err' = IF f.outcome = "ok" THEN "" ELSE f.outcome
    /\ UNCHANGED <<vertebral_levels, vertebral_labeling_data, x_centerline_fit,
                   z_centerline, vert_levels_list, warning, csaParams, csaLocals>>

\* ------------------------------------------------ compute_csa, step by step
\* lines 456-487: everything the slice loop leaves behind
CsaStage(data, algo, tz) ==
    LET fg == ForegroundSlices(data)
        lo == SetMin(fg)
        hi == SetMax(fg)
        fit == smooth_centerline(data, algo, tz)
        loop == CsaLoop(data, fit.x_deriv, fit.z_deriv, lo, hi, hi - lo + 1)
        none == [outcome |-> "", lo |-> 0, hi |-> 0, fit |-> fit, csa |-> <<>>,
                 printed |-> {}]
    IN  IF fg = {} THEN [none EXCEPT !.outcome = "ValueError"]
        ELSE IF fit.outcome # "ok" THEN [none EXCEPT !.outcome = fit.outcome,
                                                     !.lo = lo, !.hi = hi]
        ELSE [outcome |-> loop.outcome, lo |-> lo, hi |-> hi, fit |-> fit,
              csa |-> loop.csa, printed |-> loop.printed]

\* lines 425-487: temporary folder, centerline fit, CSA of every slice
C_ComputeCsa ==
    /\ pc = "csa_start" /\ err = ""
    /\ UNCHANGED <<procOutputs, otherScripts>>
    /\ tmp_folder' = TRUE
    /\ data_seg' = segmentation
    /\ \E st \in {CsaStage(segmentation, algo_fitting, tangent_z)} :
           /\ min_z_index' = st.lo
           /\ max_z_index' = st.hi
           /\ x_centerline_fit' = st.fit.x_fit
           /\ z_centerline' = st.fit.z
           /\ x_centerline_deriv' = st.fit.x_deriv
           /\ z_centerline_deriv' = st.fit.z_deriv
           /\ csa' = st.csa
           /\ csa_raw' = st.csa
           /\ printed' = st.printed
           /\ pc' = IF st.outcome = "ok" THEN "csa_smooth" ELSE pc
           /\ err' = IF st.outcome = "ok" THEN "" ELSE st.outcome
    /\ UNCHANGED <<vertebral_levels, vertebral_labeling_data, vert_levels_list, warning,
                   slices, csaParams, csa_per_slice_file, csa_volume_file,
                   results_files>>

\* lines 489-555: smoothing, the per-slice text file, the volume of CSA values
C_SmoothAndSave ==
    /\ pc = "csa_smooth" /\ err = ""
    /\ UNCHANGED <<procOutputs, otherScripts>>
    /\ \E smoothed \in {SmoothCsa(csa, smoothing_param)} :
           /\ csa' = smoothed
           /\ csa_per_slice_file' = PerSliceRows(smoothed, min_z_index, max_z_index)
           /\ csa_volume_file' = CsaVolume(data_seg, smoothed, min_z_index, max_z_index)
           /\ data_seg' = SegAfterCsaVolume(data_seg, seg_dtype, smoothed,
                                            min_z_index, max_z_index)
    /\ pc' = "csa_average"
    /\ UNCHANGED <<err, vertVars, csaParams, min_z_index, max_z_index, x_centerline_deriv,
                   z_centerline_deriv, csa_raw, results_files, tmp_folder, printed>>

\* line 559: neither -z nor -vert
C_NoAverage ==
    /\ pc = "csa_average" /\ err = ""
    /\ UNCHANGED <<procOutputs, otherScripts>>
    /\ slices = EmptyString /\ vertebral_levels = EmptyString
    /\ pc' = "csa_cleanup"
    /\ UNCHANGED <<err, vertVars, csaParams, csaLocals>>

MissingLabeling_Never(vert_levels, fname) == FALSE
\* line 562: levels asked for and no labeling file given
MissingLabeling(vert_levels, fname) == vert_levels # EmptyString /\ fname = ""

\* lines 561-581: which slices and levels the averages are taken over
SelectStage ==
    LET m == Mapper(vertebral_levels, vertebral_labeling_data, x_centerline_fit,
                    z_centerline)
    IN  IF MissingLabeling(vertebral_levels, fname_vertebral_labeling)
        THEN [outcome |-> "exit", slices |-> slices, vert_levels_list |-> vert_levels_list,
              warning |-> <<>>]
        ELSE IF vertebral_levels # EmptyString
        THEN IF m.outcome = "ok" THEN m
             ELSE [outcome |-> m.outcome, slices |-> slices,
                   vert_levels_list |-> vert_levels_list, warning |-> <<>>]
        ELSE [outcome |-> "ok", slices |-> slices, vert_levels_list |-> <<>>,
              warning |-> <<>>]

\* lines 583-613: the mean CSA and the volume over the selected slices; an
\* exception leaves the files written before it
AverageStage(sel) ==
    LET ps == ParseSlices(sel.slices)
        selected == SelectedCsa(csa_per_slice_file, ps.lo, ps.hi)
        mean_report == save_results("_csa_mean", "CSA", Mean(selected), Std(selected),
                                    EmptyString, sel.vert_levels_list, sel.warning)
        nb_vox == VoxelsInSlices(data_seg, ps.lo, ps.hi)
        volume == IF IsNaN(nb_vox) THEN NaN ELSE nb_vox * px * py * pz
        volume_report == save_results("_volume", "volume", volume, NaN, sel.slices,
                                      sel.vert_levels_list, sel.warning)
    IN  IF sel.outcome # "ok" THEN [outcome |-> sel.outcome, files |-> <<>>]
        ELSE IF ps.outcome # "ok" THEN [outcome |-> ps.outcome, files |-> <<>>]
        ELSE IF ps.lo <= ps.hi /\ ps.hi >= NZ
        THEN [outcome |-> "IndexError", files |-> <<mean_report>>]
        ELSE [outcome |-> "ok", files |-> <<mean_report, volume_report>>]

\* lines 559-613
C_Average ==
    /\ pc = "csa_average" /\ err = ""
    /\ UNCHANGED <<procOutputs, otherScripts>>
    /\ ~(slices = EmptyString /\ vertebral_levels = EmptyString)
    /\ \E sel \in {SelectStage} : \E avg \in {AverageStage(sel)} :
           /\ slices' = sel.slices
           /\ vert_levels_list' = sel.vert_levels_list
           /\ warning' = sel.warning
           /\ printed' = printed \cup {sel.warning[i].msg : i \in 1..Len(sel.warning)}
           /\ results_files' = results_files \o avg.files
           /\ pc' = IF avg.outcome = "ok" THEN "csa_cleanup" ELSE pc
           /\ err' = IF avg.outcome = "ok" THEN "" ELSE avg.outcome
    /\ UNCHANGED <<vertebral_levels, vertebral_labeling_data, x_centerline_fit, z_centerline,
                   csaParams, data_seg, min_z_index, max_z_index, x_centerline_deriv,
                   z_centerline_deriv, csa, csa_raw, csa_per_slice_file, csa_volume_file,
                   tmp_folder>>

\* lines 416 and 616: `if remove_temp_files`; the option parser is not part of the
\* sources, and -r 0 is taken to ask for the folder to be kept, as the design says
Truthy(option) == option # 0

\* lines 615-625
C_RemoveTemp ==
    /\ pc = "csa_cleanup" /\ err = ""
    /\ UNCHANGED <<procOutputs, otherScripts>>
    /\ tmp_folder' = IF Truthy(remove_temp_files) THEN FALSE ELSE tmp_folder
    /\ pc' = "done"
    /\ UNCHANGED <<err, vertVars, csaParams, data_seg, min_z_index, max_z_index,
                   x_centerline_deriv, z_centerline_deriv, csa, csa_raw,
                   csa_per_slice_file, csa_volume_file, results_files, printed>>

\* --------------------------------------------------------- extract_centerline
\* round() of a non-negative coordinate given in half voxels: halves go up
PyRound(x2) == (x2 + 1) \div 2

\* lines 339-343: the per-slice list that every index of the range gets a place in
CenterlineSlots(lo, hi) == [k \in 1..(hi - lo + 1) |-> lo + k - 1]

\* lines 348-349: the segmentation voxels are cleared before the centerline is drawn
ClearedData(data) == [x \in XRange |-> [z \in ZRange |-> 0]]

\* lines 382-383: one voxel per slice of the range, at the rounded fitted position
CenterlineImage(data, xfit, lo, hi) ==
    [x \in XRange |-> [z \in ZRange |->
        IF z \in lo..hi /\ x = PyRound(xfit[z - lo + 1]) THEN 1 ELSE ClearedData(data)[x][z]]]

\* lines 400-404: one row "index x" per slice of the range
CenterlineRows(xfit, lo, hi) ==
    [k \in 1..(hi - lo + 1) |-> [index |-> str(lo + k - 1), x |-> xfit[k]]]

\* lines 337-420: what the function leaves behind
CenterlineStage(data, algo, tz, remove) ==
    LET fg == ForegroundSlices(data)
        lo == SetMin(fg)
        hi == SetMax(fg)
        fit == smooth_centerline(data, algo, tz)
        none == [outcome |-> "", image |-> ClearedData(data), rows |-> <<>>, tmp |-> TRUE]
    IN  IF fg = {} THEN [none EXCEPT !.outcome = "ValueError"]
        ELSE IF fit.outcome # "ok" THEN [none EXCEPT !.outcome = fit.outcome]
        ELSE IF Len(CenterlineSlots(lo, hi)) > Len(fit.x_fit)
        THEN [none EXCEPT !.outcome = "IndexError"]
        ELSE [outcome |-> "ok",
              image |-> CenterlineImage(data, fit.x_fit, lo, hi),
              rows |-> CenterlineRows(fit.x_fit, lo, hi),
              tmp |-> ~Truthy(remove)]

\* lines 286-420
E_ExtractCenterline ==
    /\ pc = "centerline_start" /\ err = ""
    /\ UNCHANGED otherScripts
    /\ \E st \in {CenterlineStage(segmentation, algo_fitting, tangent_z, remove_temp_files)} :
           /\ tmp_folder' = st.tmp
           /\ centerline_data' = st.image
           /\ centerline_file' = st.rows
           /\ pc' = IF st.outcome = "ok" THEN "centerline_done" ELSE pc
           /\ err' = IF st.outcome = "ok" THEN "" ELSE st.outcome
    /\ UNCHANGED <<vertVars, csaParams, data_seg, min_z_index, max_z_index,
                   x_centerline_deriv, z_centerline_deriv, csa, csa_raw,
                   csa_per_slice_file, csa_volume_file, results_files, printed,
                   result_length>>

\* ------------------------------------------------------------- compute_length
\* floor of the square root
ISqrt(n) ==
    CHOOSE r \in 0..(2 * Scale * (NX * px + NZ * pz)) : r * r <= n /\ (r + 1) * (r + 1) > n

\* line 273: the length of one segment of the fitted centerline, in mm
SegmentLength(dx2, dz) ==
    ISqrt((dx2 * px * Scale) * (dx2 * px * Scale)
              + (2 * dz * pz * Scale) * (2 * dz * pz * Scale)) \div 2

\* lines 271-273
RECURSIVE CenterlineLength(_, _, _)
CenterlineLength(xfit, zc, n) ==
    IF n < 1 THEN 0
    ELSE CenterlineLength(xfit, zc, n - 1)
             + SegmentLength(xfit[n + 1] - xfit[n], zc[n + 1] - zc[n])

\* lines 240-280: the folder is created and the function returns without removing it
L_ComputeLength ==
    /\ pc = "length_start" /\ err = ""
    /\ UNCHANGED otherScripts
    /\ tmp_folder' = TRUE
    /\ \E fit \in {smooth_centerline(segmentation, "hanning", 1)} :
           /\ result_length' = IF fit.outcome = "ok"
                               THEN CenterlineLength(fit.x_fit, fit.z, Len(fit.x_fit) - 1)
                               ELSE result_length
           /\ pc' = IF fit.outcome = "ok" THEN "length_done" ELSE pc
           /\ err' = IF fit.outcome = "ok" THEN "" ELSE fit.outcome
    /\ UNCHANGED <<vertVars, csaParams, data_seg, min_z_index, max_z_index,
                   x_centerline_deriv, z_centerline_deriv, csa, csa_raw,
                   csa_per_slice_file, csa_volume_file, results_files, printed,
                   centerline_data, centerline_file>>

\* ------------------------------------------------ inputs of the mapper runs
\* labeling volumes: every slice carries one level code (or none) on all columns
\* but the last, which is left unlabeled
LabelingVolumes ==
    {[x \in XRange |-> [z \in ZRange |-> IF x < NX - 1 THEN lev[z] ELSE 0]] :
        lev \in [ZRange -> Levels]}

\* straight centerlines through every slice: on column 0, between columns 0 and 1,
\* and on the last column
CenterlinePositions == {0, 1, 2 * (NX - 1)}

RequestedLevels == 0..(MaxLevel + 1)
LevelRequests ==
    {<<str(a), str(b)>> : a \in RequestedLevels, b \in RequestedLevels}
        \cup {<<str(a)>> : a \in RequestedLevels}
        \cup {<<str(1), str(2), str(3)>>, <<str(2), <<>> >>}

\* None, for an option that takes a number
None == 0 - 1

\* the voxel indices of an image of sct_maths along each of its three dimensions
MathsRange == 0..(MathsSide - 1)
MathsZeros == [x \in MathsRange |-> [y \in MathsRange |-> [z \in MathsRange |-> 0]]]

\* sct_maths is not running
IdleMaths ==
    /\ arguments_sub = None
    /\ arguments_symmetrize = None
    /\ arguments_type = "None"
    /\ maths_data = MathsZeros
    /\ maths_saved = <<>>

\* segment_nifti is not running
IdleDeepseg ==
    /\ param_threshold = None
    /\ param_keep_largest_object = TRUE
    /\ metadata = [keys |-> {}, threshold |-> None]
    /\ prediction = [x \in XRange |-> [z \in ZRange |-> 0]]
    /\ axcodes = <<"R", "A", "S">>
    /\ threshold = None
    /\ deepseg_saved = <<>>
    /\ deepseg_log = {}

\* sct_compute_mtsat, lines 182-193: the six scan parameters in the order main
\* resolves them, with the image and the json field of each
ScanOptions == <<"trmt", "trpd", "trt1", "famt", "fapd", "fat1">>
ImageOf(option) ==
    IF option \in {"trmt", "famt"} THEN "mt" ELSE IF option \in {"trpd", "fapd"} THEN "pd" ELSE "t1"
FieldOf(option) ==
    IF option \in {"trmt", "trpd", "trt1"} THEN "RepetitionTime" ELSE "FlipAngle"
ScanOptionNames == {ScanOptions[k] : k \in 1..Len(ScanOptions)}
ImageNames == {"mt", "pd", "t1"}

\* sct_compute_mtsat is not running
IdleMtsat ==
    /\ argv = [o \in ScanOptionNames |-> None]
    /\ args = [o \in ScanOptionNames |-> None]
    /\ images = [i \in ImageNames |-> [ext |-> ".nii.gz", json_exists |-> FALSE, json_keys |-> {}]]
    /\ sidecar_reads = {}
    /\ compute_mtsat_calls = <<>>

\* the scripts other than sct_process_segmentation and sct_label_utils are not running
IdleTools == IdleMaths /\ IdleDeepseg /\ IdleMtsat

\* sct_label_utils is not running
IdleLabels ==
    /\ label_function = ""
    /\ label_o = ""
    /\ label_img = [z \in ZRange |-> 0]
    /\ label_saved = {}
    /\ coordinates_input = <<>>
    /\ max_dist_mm = 0
    /\ distance_warnings = {}

\* compute_csa is not running
IdleCsa ==
    /\ IdleLabels
    /\ IdleTools
    /\ name_process = "csa"
    /\ segmentation = [x \in XRange |-> [z \in ZRange |-> 0]]
    /\ centerline_data = [x \in XRange |-> [z \in ZRange |-> 0]]
    /\ centerline_file = <<>>
    /\ result_length = 0
    /\ data_seg = [x \in XRange |-> [z \in ZRange |-> 0]]
    /\ seg_dtype = "uint8"
    /\ fname_vertebral_labeling = ""
    /\ smoothing_param = 0
    /\ remove_temp_files = 1
    /\ algo_fitting = "hanning"
    /\ tangent_z = 1
    /\ min_z_index = 0 /\ max_z_index = 0
    /\ x_centerline_deriv = <<>> /\ z_centerline_deriv = <<>>
    /\ csa = <<>> /\ csa_raw = <<>>
    /\ csa_per_slice_file = <<>>
    /\ csa_volume_file = [x \in XRange |-> [z \in ZRange |-> 0]]
    /\ results_files = <<>>
    /\ tmp_folder = FALSE
    /\ printed = {}

InitVert ==
    /\ pc = "vert_parse"
    /\ err = ""
    /\ vertebral_levels \in LevelRequests
    /\ vertebral_labeling_data \in LabelingVolumes
    /\ \E c \in CenterlinePositions : x_centerline_fit = [i \in 1..NZ |-> c]
    /\ z_centerline = [i \in 1..NZ |-> i - 1]
    /\ vert_levels_list = <<>>
    /\ warning = <<>>
    /\ slices = EmptyString
    /\ IdleCsa

NextVert == V_Parse \/ V_Resolve \/ V_FindSlices

SpecVert == InitVert /\ [][NextVert]_vars

\* ---------------------------------------------- inputs of the compute_csa runs
One == FromInt(1)
\* the columns a slice of the segmentation may cover
SlicePatterns == {{}, {0}, {0, 1}, {NX - 1}}
SegVolumes ==
    {[x \in XRange |-> [z \in ZRange |-> IF x \in pat[z] THEN One ELSE 0]] :
        pat \in [ZRange -> SlicePatterns]}
NoLabeling == [x \in XRange |-> [z \in ZRange |-> 0]]
\* labeling files: consecutive levels, and levels present on every other slice only
PipelineLabelings ==
    {[x \in XRange |-> [z \in ZRange |-> IF x < NX - 1 THEN z + 1 ELSE 0]],
     [x \in XRange |-> [z \in ZRange |-> IF x < NX - 1 /\ z % 2 = 0 THEN z + 1 ELSE 0]]}
\* hanning: the z component of the tangent is 1; nurbs: the derivative is taken
\* along the curve parameter and its z component is not fixed
FitChoices ==
    {[algo |-> "hanning", tz |-> 1]}
        \cup {[algo |-> "nurbs", tz |-> t] : t \in {0 - 1, 0, 1}}
SliceRequests ==
    {<<str(a), str(b)>> : a \in 0..NZ, b \in 0..NZ}
        \cup {<<str(1)>>, <<str(0), str(1), str(2)>>, <<str(0), <<>> >>}
PipelineLevelRequests ==
    {<<str(1), str(2)>>, <<str(0), str(MaxLevel + 1)>>, <<str(2)>>, <<str(2), str(1)>>,
     <<str(2), <<>> >>, <<str(1), str(2), str(3)>>}
Selections ==
    {[z |-> z, vert |-> EmptyString, file |-> "", labeling |-> NoLabeling] :
        z \in SliceRequests}
    \cup {[z |-> z, vert |-> <<str(1), str(2)>>, file |-> "", labeling |-> NoLabeling] :
        z \in {EmptyString, <<str(0), str(1)>>}}
    \cup {[z |-> EmptyString, vert |-> v, file |-> "vertebral_labeling.nii.gz",
           labeling |-> l] : v \in PipelineLevelRequests, l \in PipelineLabelings}
    \cup {[z |-> <<str(0), str(0)>>, vert |-> <<str(1), str(2)>>,
           file |-> "vertebral_labeling.nii.gz", labeling |-> l] : l \in PipelineLabelings}

\* nothing computed or written yet
NothingDone ==
    /\ err = ""
    /\ IdleLabels
    /\ IdleTools
    /\ x_centerline_fit = <<>> /\ z_centerline = <<>>
    /\ vert_levels_list = <<>>
    /\ warning = <<>>
    /\ min_z_index = 0 /\ max_z_index = 0
    /\ x_centerline_deriv = <<>> /\ z_centerline_deriv = <<>>
    /\ csa = <<>> /\ csa_raw = <<>>
    /\ csa_per_slice_file = <<>>
    /\ csa_volume_file = NoLabeling
    /\ results_files = <<>>
    /\ tmp_folder = FALSE
    /\ printed = {}
    /\ centerline_data = NoLabeling
    /\ centerline_file = <<>>
    /\ result_length = 0
    /\ data_seg = NoLabeling

CsaStart == pc = "csa_start" /\ name_process = "csa" /\ NothingDone

\* runs that vary the fit, the smoothing and the -r option, with no -z and no -vert
InitFitRuns ==
    /\ CsaStart
    /\ segmentation \in SegVolumes
    /\ seg_dtype = "uint8"
    /\ \E f \in FitChoices : algo_fitting = f.algo /\ tangent_z = f.tz
    /\ smoothing_param \in {0, SmoothingMm}
    /\ remove_temp_files \in {0, 1}
    /\ slices = EmptyString
    /\ vertebral_levels = EmptyString
    /\ fname_vertebral_labeling = ""
    /\ vertebral_labeling_data = NoLabeling

\* runs that vary -z, -vert, -vertfile and the stored type of the segmentation
InitSelectionRuns ==
    /\ CsaStart
    /\ segmentation \in SegVolumes
    /\ seg_dtype \in {"uint8", "float32"}
    /\ algo_fitting = "hanning" /\ tangent_z = 1
    /\ smoothing_param = 0
    /\ remove_temp_files = 1
    /\ \E sel \in Selections :
           /\ slices = sel.z
           /\ vertebral_levels = sel.vert
           /\ fname_vertebral_labeling = sel.file
           /\ vertebral_labeling_data = sel.labeling

\* no -z, no -vert, no smoothing: what the two other processes are run with
NoCsaOptions ==
    /\ seg_dtype = "uint8"
    /\ smoothing_param = 0
    /\ slices = EmptyString
    /\ vertebral_levels = EmptyString
    /\ fname_vertebral_labeling = ""
    /\ vertebral_labeling_data = NoLabeling

\* -p centerline
InitCenterlineRuns ==
    /\ pc = "centerline_start" /\ name_process = "centerline" /\ NothingDone
    /\ NoCsaOptions
    /\ segmentation \in SegVolumes
    /\ \E f \in FitChoices : algo_fitting = f.algo /\ tangent_z = f.tz
    /\ remove_temp_files \in {0, 1}

\* -p length
InitLengthRuns ==
    /\ pc = "length_start" /\ name_process = "length" /\ NothingDone
    /\ NoCsaOptions
    /\ segmentation \in SegVolumes
    /\ algo_fitting = "hanning" /\ tangent_z = 1
    /\ remove_temp_files \in {0, 1}

Init == InitFitRuns \/ InitSelectionRuns \/ InitCenterlineRuns \/ InitLengthRuns

Next ==
    \/ C_ComputeCsa \/ C_SmoothAndSave \/ C_NoAverage \/ C_Average \/ C_RemoveTemp
    \/ E_ExtractCenterline
    \/ L_ComputeLength

Spec == Init /\ [][Next]_vars

\* ============================================================ sct_label_utils
\* the names bound at module level of sct_label_utils.py (imports and definitions)
ModuleNames ==
    {"os", "sys", "argparse", "Sequence", "np", "Image", "zeros_like", "Coordinate",
     "generate_qc", "sct_labels", "Metavar", "SmartFormatter", "ActionCreateFolder",
     "list_type", "sct", "get_parser", "main", "display_voxel",
     "check_distance_between_labels", "launch_sagittal_viewer"}

\* lines 77-171: the mutually exclusive label functions
LabelFunctions ==
    {"add", "create", "create-add", "create-seg", "create-viewer", "cubic-to-point",
     "display", "increment", "vert-body", "vert-continuous", "MSE", "remove-reference",
     "remove-sym", "remove", "keep"}
\* lines 239-254: the functions whose branch assigns the image `out`
ImageFunctions ==
    {"add", "create", "create-add", "create-seg", "cubic-to-point", "increment",
     "vert-body"}

\* lines 239-277: the branch of the if/elif chain taken for a label function.  The
\* chain tests arguments.remove_symm, an attribute the parser does not define, before
\* the branches of -create-viewer, -remove and -keep; the -MSE branch reads arguments.r.
Dispatch(function) ==
    IF function \in ImageFunctions THEN [outcome |-> "ok", out |-> TRUE, process_type |-> ""]
    ELSE IF function = "display" THEN [outcome |-> "ok", out |-> FALSE, process_type |-> ""]
    ELSE IF function \in {"vert-continuous", "remove-reference"}
    THEN [outcome |-> "ok", out |-> FALSE, process_type |-> function]
    ELSE [outcome |-> "AttributeError", out |-> FALSE, process_type |-> ""]

\* lines 221-301: main.  get_parser calls Param(), a name the module does not bind;
\* line 293 reads process_type, which the image branches do not assign; no statement
\* of main saves `out`.
LabelMain(function, o) ==
    LET d == Dispatch(function)
    IN  IF "Param" \notin ModuleNames THEN [outcome |-> "NameError", saved |-> {}]
        ELSE IF d.outcome # "ok" THEN [outcome |-> d.outcome, saved |-> {}]
        ELSE IF d.process_type = "" THEN [outcome |-> "UnboundLocalError", saved |-> {}]
        ELSE [outcome |-> "ok", saved |-> {}]

U_Main ==
    /\ pc = "label_start" /\ err = ""
    /\ \E r \in {LabelMain(label_function, label_o)} :
           /\ label_saved' = label_saved \cup r.saved
           /\ pc' = IF r.outcome = "ok" THEN "label_done" ELSE pc
           /\ err' = IF r.outcome = "ok" THEN "" ELSE r.outcome
    /\ UNCHANGED <<vertVars, csaParams, csaLocals, procOutputs, label_function, label_o,
                   label_img, coordinates_input, max_dist_mm, distance_warnings, mathsVars,
                   deepsegVars, mtsatVars>>

\* line 335: the square of dist, the distance between two labels in voxel indices
SquaredDistance(a, b) ==
    (a.x - b.x) * (a.x - b.x) + (a.y - b.y) * (a.y - b.y) + (a.z - b.z) * (a.z - b.z)

\* line 337: dist < max_dist_mm, dist being the non-negative root of d2 and
\* max_dist_mm a real in fixed point
DistanceBelow(d2, max) == max > 0 /\ d2 * Scale * Scale < max * max

\* lines 334-341: the indices i of range(0, len - 1) whose pair (i, i + 1) is warned
\* about
check_distance_between_labels(coords, max) ==
    {i \in 0..(Len(coords) - 2) :
        DistanceBelow(SquaredDistance(coords[i + 1], coords[i + 2]), max)}

U_CheckDistance ==
    /\ pc = "distance_start" /\ err = ""
    /\ distance_warnings' = check_distance_between_labels(coordinates_input, max_dist_mm)
    /\ pc' = "distance_done"
    /\ UNCHANGED <<err, vertVars, csaParams, csaLocals, procOutputs, label_function, label_o,
                   label_img, label_saved, coordinates_input, max_dist_mm, mathsVars,
                   deepsegVars, mtsatVars>>

\* the input images: a label value, or none, in every voxel
LabelImages == [ZRange -> 0..1]

\* sct_process_segmentation is not running
IdlePipeline ==
    /\ vertebral_levels = EmptyString
    /\ vertebral_labeling_data = NoLabeling
    /\ x_centerline_fit = <<>> /\ z_centerline = <<>>
    /\ vert_levels_list = <<>>
    /\ warning = <<>>
    /\ slices = EmptyString
    /\ name_process = "" /\ segmentation = NoLabeling
    /\ seg_dtype = "uint8" /\ fname_vertebral_labeling = ""
    /\ smoothing_param = 0 /\ remove_temp_files = 1
    /\ algo_fitting = "hanning" /\ tangent_z = 1
    /\ data_seg = NoLabeling
    /\ min_z_index = 0 /\ max_z_index = 0
    /\ x_centerline_deriv = <<>> /\ z_centerline_deriv = <<>>
    /\ csa = <<>> /\ csa_raw = <<>>
    /\ csa_per_slice_file = <<>>
    /\ csa_volume_file = NoLabeling
    /\ results_files = <<>>
    /\ tmp_folder = FALSE
    /\ printed = {}
    /\ centerline_data = NoLabeling
    /\ centerline_file = <<>>
    /\ result_length = 0

\* the labels an image may hold: a voxel and its value
LabelCoordinates == [x : XRange, y : {0}, z : ZRange, value : {1}]
\* the lists of at most MaxLabels labels, no two in the same voxel
CoordinateLists ==
    {c \in UNION {[1..n -> LabelCoordinates] : n \in 0..MaxLabels} :
        \A i, j \in 1..Len(c) : i # j => c[i] # c[j]}
\* the distances allowed: 1, 1.5 and 2
MaxDistances == {FromInt(1), FromInt(3) \div 2, FromInt(2)}

InitDistanceRuns ==
    /\ pc = "distance_start"
    /\ err = ""
    /\ label_function = "" /\ label_o = ""
    /\ label_img = [z \in ZRange |-> 0]
    /\ label_saved = {}
    /\ coordinates_input \in CoordinateLists
    /\ max_dist_mm \in MaxDistances
    /\ distance_warnings = {}
    /\ IdleTools
    /\ IdlePipeline

InitLabels ==
    /\ pc = "label_start"
    /\ err = ""
    /\ label_function \in LabelFunctions
    /\ label_o \in {"", "t2_labels_out.nii.gz"}
    /\ label_img \in LabelImages
    /\ label_saved = {}
    /\ coordinates_input = <<>>
    /\ max_dist_mm = 0
    /\ distance_warnings = {}
    /\ IdleTools
    /\ vertebral_levels = EmptyString
    /\ vertebral_labeling_data = NoLabeling
    /\ x_centerline_fit = <<>> /\ z_centerline = <<>>
    /\ vert_levels_list = <<>>
    /\ warning = <<>>
    /\ slices = EmptyString
    /\ name_process = "" /\ segmentation = NoLabeling
    /\ seg_dtype = "uint8" /\ fname_vertebral_labeling = ""
    /\ smoothing_param = 0 /\ remove_temp_files = 1
    /\ algo_fitting = "hanning" /\ tangent_z = 1
    /\ data_seg = NoLabeling
    /\ min_z_index = 0 /\ max_z_index = 0
    /\ x_centerline_deriv = <<>> /\ z_centerline_deriv = <<>>
    /\ csa = <<>> /\ csa_raw = <<>>
    /\ csa_per_slice_file = <<>>
    /\ csa_volume_file = NoLabeling
    /\ results_files = <<>>
    /\ tmp_folder = FALSE
    /\ printed = {}
    /\ centerline_data = NoLabeling
    /\ centerline_file = <<>>
    /\ result_length = 0

InitLabelRuns == InitLabels \/ InitDistanceRuns

NextLabels == U_Main \/ U_CheckDistance

SpecLabels == InitLabelRuns /\ [][NextLabels]_vars

\* ================================================================== sct_maths
\* lines 42-230: the attributes of the namespace parse_args returns, one per option,
\* named after the option without its dash ('-otsu-median' gives otsu_median)
ArgumentNames ==
    {"i", "o", "add", "sub", "mul", "div", "mean", "rms", "std", "bin", "otsu", "adap",
     "otsu_median", "percent", "thr", "dilate", "erode", "shape", "dim", "smooth",
     "laplacian", "denoise", "mi", "minorm", "corr", "symmetrize", "type", "v"}

\* lines 254-257: `'-type' in arguments` asks the namespace for an attribute of that
\* name
OutputType(type) == IF "-type" \in ArgumentNames THEN type ELSE "None"

\* lines 224-225: the choices of -type
TypeChoices ==
    {"uint8", "int16", "int32", "float32", "complex64", "float64", "int8", "uint16",
     "uint32", "int64", "uint64"}

\* line 461: data_in[:, :, :] * 0 + float(argument[0])
ScalarVolume(data, number) ==
    [x \in MathsRange |-> [y \in MathsRange |-> [z \in MathsRange |->
        FAdd(FMul(FromInt(data[x][y][z]), 0), FromInt(number))]]]

\* line 296: data - data2
Subtract(data, data2) ==
    [x \in MathsRange |-> [y \in MathsRange |-> [z \in MathsRange |->
        FAdd(FromInt(data[x][y][z]), 0 - data2[x][y][z])]]]

\* line 365: data[list(range(data.shape[0] - 1, -1, -1)), :, :]
ReversedData(data) ==
    [x \in MathsRange |-> data[(MathsSide - 1) - x]]

\* line 365: (data + reversed data) / float(2)
Symmetrize(data) ==
    [x \in MathsRange |-> [y \in MathsRange |-> [z \in MathsRange |->
        FDivInt(FAdd(FromInt(data[x][y][z]), FromInt(ReversedData(data)[x][y][z])), 2)]]]

\* lines 265-389: the operation run, the first of the elif chain whose option is given;
\* with no operation parser.error ends the run
DataOut(sub, symmetrize, data) ==
    IF sub # None THEN [outcome |-> "ok", data_out |-> Subtract(data, ScalarVolume(data, sub))]
    ELSE IF symmetrize # None THEN [outcome |-> "ok", data_out |-> Symmetrize(data)]
    ELSE [outcome |-> "SystemExit", data_out |-> MathsZeros]

\* lines 237-426: main
MathsMain(sub, symmetrize, type, data) ==
    LET output_type == OutputType(type)
        r == DataOut(sub, symmetrize, data)
    IN  IF r.outcome # "ok" THEN [outcome |-> r.outcome, saved |-> <<>>]
        ELSE [outcome |-> "ok", saved |-> <<[data |-> r.data_out, dtype |-> output_type]>>]

M_Main ==
    /\ pc = "maths_start" /\ err = ""
    /\ \E r \in {MathsMain(arguments_sub, arguments_symmetrize, arguments_type, maths_data)} :
           /\ maths_saved' = maths_saved \o r.saved
           /\ pc' = IF r.outcome = "ok" THEN "maths_done" ELSE pc
           /\ err' = IF r.outcome = "ok" THEN "" ELSE r.outcome
    /\ UNCHANGED <<vertVars, csaParams, csaLocals, procOutputs, labelVars, arguments_sub,
                   arguments_symmetrize, arguments_type, maths_data, deepsegVars, mtsatVars>>

\* the input images: at most two voxels of value 1
MathsVoxels == MathsRange \X MathsRange \X MathsRange
MathsVolumes ==
    {[x \in MathsRange |-> [y \in MathsRange |-> [z \in MathsRange |->
        IF <<x, y, z>> \in set THEN 1 ELSE 0]]] :
            set \in {{}} \cup {{v, w} : v \in MathsVoxels, w \in MathsVoxels}}

InitMaths ==
    /\ pc = "maths_start"
    /\ err = ""
    /\ arguments_sub \in {None, 0, 1}
    /\ arguments_symmetrize \in {None, 0, 1, 2}
    /\ arguments_type \in {"None"} \cup TypeChoices
    /\ maths_data \in MathsVolumes
    /\ maths_saved = <<>>
    /\ IdleDeepseg
    /\ IdleMtsat
    /\ IdleLabels
    /\ IdlePipeline

NextMaths == M_Main

SpecMaths == InitMaths /\ [][NextMaths]_vars

\* ==================================================== deepseg: segment_nifti
\* line 20
DEFAULT_THRESHOLD == (9 * Scale) \div 10

\* lines 52, 61, 66: the truth value of a threshold (None and 0 are false)
ThresholdIsSet(t) == t # None /\ t # 0

\* lines 52-60: the threshold chosen
ChooseThreshold(p_threshold, meta) ==
    IF ThresholdIsSet(p_threshold) THEN [threshold |-> p_threshold, log |-> {}]
    ELSE IF "threshold" \in meta.keys THEN [threshold |-> p_threshold, log |-> {}]
    ELSE [threshold |-> DEFAULT_THRESHOLD,
          log |-> {"'threshold' is not defined in the model json file"}]

\* line 62: imed.postprocessing.threshold_predictions_nib: 1 where the prediction
\* reaches the threshold, 0 elsewhere
threshold_predictions_nib(data, thr) ==
    [x \in XRange |-> [z \in ZRange |-> IF data[x][z] >= thr THEN FromInt(1) ELSE 0]]

\* the voxels of slice z that belong to the object voxel x0 is in
ObjectOf(data, x0, z) ==
    {x \in XRange : \A k \in XRange :
        (k >= (IF x < x0 THEN x ELSE x0) /\ k <= (IF x < x0 THEN x0 ELSE x)) => data[k][z] # 0}
\* the largest object of slice z, the first one among the largest
LargestObject(data, z) ==
    LET starts == {x \in XRange : data[x][z] # 0}
        size(x) == Cardinality(ObjectOf(data, x, z))
    IN  IF starts = {} THEN {}
        ELSE ObjectOf(data, SetMin({x \in starts : \A y \in starts : size(x) >= size(y)}), z)
\* line 77: imed.postprocessing.keep_largest_object_per_slice_nib
keep_largest_object_per_slice_nib(data) ==
    [x \in XRange |-> [z \in ZRange |-> IF x \in LargestObject(data, z) THEN data[x][z] ELSE 0]]

\* lines 71-76: the superior-inferior axis is found in the axis codes
HasInfSupAxis(code) == \E i \in 1..Len(code) : code[i] \in {"I", "S"}

\* lines 36-83: segment_nifti
segment_nifti(nii, meta, p_threshold, keep_largest_object, code) ==
    LET chosen == ChooseThreshold(p_threshold, meta)
        thr == chosen.threshold
        thresholded == IF ThresholdIsSet(thr) THEN threshold_predictions_nib(nii, thr) ELSE nii
        st == [outcome |-> "ok", threshold |-> thr, log |-> chosen.log, saved |-> <<>>]
    IN  IF ~keep_largest_object THEN [st EXCEPT !.saved = <<thresholded>>]
        ELSE IF ~ThresholdIsSet(thr)
        THEN [st EXCEPT !.saved = <<thresholded>>,
                        !.log = @ \cup {"Algorithm 'keep largest object' can only be run on binary segmentation."}]
        ELSE IF ~HasInfSupAxis(code) THEN [st EXCEPT !.outcome = "ValueError"]
        ELSE [st EXCEPT !.saved = <<keep_largest_object_per_slice_nib(thresholded)>>]

D_SegmentNifti ==
    /\ pc = "deepseg_start" /\ err = ""
    /\ \E r \in {segment_nifti(prediction, metadata, param_threshold,
                                param_keep_largest_object, axcodes)} :
           /\ threshold' = r.threshold
           /\ deepseg_log' = deepseg_log \cup r.log
           /\ deepseg_saved' = deepseg_saved \o r.saved
           /\ pc' = IF r.outcome = "ok" THEN "deepseg_done" ELSE pc
           /\ err' = IF r.outcome = "ok" THEN "" ELSE r.outcome
    /\ UNCHANGED <<vertVars, csaParams, csaLocals, procOutputs, labelVars, mathsVars,
                   param_threshold, param_keep_largest_object, metadata, prediction, axcodes,
                   mtsatVars>>

\* the predictions: probabilities 0.6, 0.8 and 0.95 in at most three voxels
Voxels == XRange \X ZRange
Predictions ==
    {[x \in XRange |-> [z \in ZRange |->
        IF <<x, z>> = w THEN (95 * Scale) \div 100
        ELSE IF <<x, z>> = v THEN (8 * Scale) \div 10
        ELSE IF <<x, z>> = u THEN (6 * Scale) \div 10 ELSE 0]] :
            u \in Voxels, v \in Voxels, w \in Voxels}
    \cup {[x \in XRange |-> [z \in ZRange |-> 0]]}
\* the metadata of a model: without a threshold, or with a threshold of 0.7
Metadatas ==
    {[keys |-> {}, threshold |-> None],
     [keys |-> {"threshold"}, threshold |-> (7 * Scale) \div 10]}

InitDeepseg ==
    /\ pc = "deepseg_start"
    /\ err = ""
    /\ param_threshold \in {None, 0, Scale \div 2}
    /\ param_keep_largest_object \in BOOLEAN
    /\ metadata \in Metadatas
    /\ prediction \in Predictions
    /\ axcodes \in {<<"R", "A", "S">>, <<"L", "P", "I">>, <<"R", "A", "None">>}
    /\ threshold = None
    /\ deepseg_saved = <<>>
    /\ deepseg_log = {}
    /\ IdleMaths
    /\ IdleMtsat
    /\ IdleLabels
    /\ IdlePipeline

NextDeepseg == D_SegmentNifti

SpecDeepseg == InitDeepseg /\ [][NextDeepseg]_vars

\* ========================================================== sct_compute_mtsat
\* the value a json sidecar holds for the field of an option, and the value the
\* command line gives to an option: twelve different numbers
OptionIndex(option) == CHOOSE k \in 1..Len(ScanOptions) : ScanOptions[k] = option
SidecarValue(option) == 10 + OptionIndex(option)
CommandLineValue(option) == 20 + OptionIndex(option)

\* lines 129-149: get_json_file_name(fname, check_exist=True)
get_json_file_name(image) ==
    IF image.ext \notin {".nii", ".nii.gz"} THEN "ValueError"
    ELSE IF ~image.json_exists THEN "FileNotFoundError"
    ELSE "ok"

\* lines 152-164: fetch_metadata.  Line 162 builds a KeyError without raising it, and
\* the function ends without a return statement
fetch_metadata(image, option) ==
    IF FieldOf(option) \notin image.json_keys THEN None ELSE SidecarValue(option)

\* lines 182-193: the scan parameters not given are fetched, the first k of them
RECURSIVE FetchScanParameters(_, _, _)
FetchScanParameters(given, imgs, k) ==
    IF k = 0 THEN [outcome |-> "ok", args |-> given, reads |-> {}]
    ELSE LET st == FetchScanParameters(given, imgs, k - 1)
             option == ScanOptions[k]
             image == imgs[ImageOf(option)]
         IN  IF st.outcome # "ok" \/ st.args[option] # None THEN st
             ELSE IF get_json_file_name(image) # "ok"
             THEN [st EXCEPT !.outcome = get_json_file_name(image),
                             !.reads = @ \cup {option}]
             ELSE [st EXCEPT !.args[option] = fetch_metadata(image, option),
                             !.reads = @ \cup {option}]

\* lines 196-199: the outcomes of compute_mtsat, a function of
\* spinalcordtoolbox.qmri.mt: what it does with a scan parameter None is not known
ComputeMtsatOutcomes(a) ==
    IF \E o \in ScanOptionNames : a[o] = None THEN {"ok", "TypeError"} ELSE {"ok"}

T_Main ==
    /\ pc = "mtsat_start" /\ err = ""
    /\ \E st \in {FetchScanParameters(argv, images, Len(ScanOptions))} :
           /\ args' = st.args
           /\ sidecar_reads' = sidecar_reads \cup st.reads
           /\ IF st.outcome # "ok"
              THEN /\ err' = st.outcome
                   /\ UNCHANGED <<pc, compute_mtsat_calls>>
              ELSE /\ compute_mtsat_calls' = Append(compute_mtsat_calls, st.args)
                   /\ \E outcome \in ComputeMtsatOutcomes(st.args) :
                          /\ err' = IF outcome = "ok" THEN "" ELSE outcome
                          /\ pc' = IF outcome = "ok" THEN "mtsat_done" ELSE pc
    /\ UNCHANGED <<vertVars, csaParams, csaLocals, procOutputs, labelVars, mathsVars,
                   deepsegVars, argv, images>>

\* an image and its sidecar: a NIfTI file with no sidecar or with a sidecar holding
\* any of the two fields, or a file of another format
ImageFiles ==
    {[ext |-> ".nii.gz", json_exists |-> FALSE, json_keys |-> {}],
     [ext |-> ".img", json_exists |-> FALSE, json_keys |-> {}]}
    \cup {[ext |-> ".nii.gz", json_exists |-> TRUE, json_keys |-> keys] :
              keys \in SUBSET {"RepetitionTime", "FlipAngle"}}

InitMtsat ==
    /\ pc = "mtsat_start"
    /\ err = ""
    /\ \E given \in SUBSET ScanOptionNames :
           argv = [o \in ScanOptionNames |-> IF o \in given THEN CommandLineValue(o) ELSE None]
    /\ args = argv
    /\ images \in [ImageNames -> ImageFiles]
    /\ sidecar_reads = {}
    /\ compute_mtsat_calls = <<>>
    /\ IdleMaths
    /\ IdleDeepseg
    /\ IdleLabels
    /\ IdlePipeline

NextMtsat == T_Main

SpecMtsat == InitMtsat /\ [][NextMtsat]_vars

\* ================================================================== claims
\* what the user asked for, read off the -vert string of a run whose parse succeeded
RequestedStart == int(vertebral_levels[1])
RequestedEnd == int(vertebral_levels[Len(vertebral_levels)])
Available == LevelsAvailable(vertebral_labeling_data)
\* the run has gone through the resolution of the levels (lines 687-735) without error
Resolved == pc \in {"vert_find", "vert_returned"}
\* the resolution was entered: it completed, or it raised
ResolutionEntered == Resolved \/ (pc = "vert_resolve" /\ err # "")
WarningsAbout(msg) == {i \in 1..Len(warning) : warning[i].msg = msg}

\* C1: a request whose start is below the lowest available level and whose end is
\* above the highest available level resolves to exactly [lowest, highest], with
\* exactly two warnings recorded.
C1_ClampBothEnds ==
    (Resolved /\ RequestedStart < SetMin(Available) /\ RequestedEnd > SetMax(Available))
        => /\ vert_levels_list = <<SetMin(Available), SetMax(Available)>>
           /\ Len(warning) = 2
C1_Witness ==
    /\ Resolved
    /\ RequestedStart = 1 /\ RequestedEnd = MaxLevel + 1
    /\ Available = {2, 3, 4}
    /\ vert_levels_list = <<2, 4>>

\* C2: the resolution is idempotent: the mapper, given the level range it returned
\* (same labeling, same centerline), returns the same level range, the same slice
\* range and no warning.
C2_Idempotent ==
    (pc = "vert_returned")
        => LET again == Mapper(<<str(vert_levels_list[1]), str(vert_levels_list[2])>>,
                               vertebral_labeling_data, x_centerline_fit, z_centerline)
           IN  /\ again.outcome = "ok"
               /\ again.vert_levels_list = vert_levels_list
               /\ again.slices = slices
               /\ again.warning = <<>>
C2_Witness ==
    /\ pc = "vert_returned"
    /\ Len(warning) = 2
    /\ vert_levels_list # <<RequestedStart, RequestedEnd>>

\* the requested level is inside [lowest, highest] but absent from the labeling
MissingInside(v) == v \notin Available /\ SetMin(Available) < v /\ v < SetMax(Available)
NearestInferior(v) == SetMax({a \in Available : a < v})
NearestSuperior(v) == SetMin({a \in Available : a > v})

\* C3 (as claimed): a requested start inside [lowest, highest] that is not in the
\* labeling is replaced by the greatest available level below it, and one warning
\* naming that level is recorded.
C3_BottomSnapsToNearestInferior ==
    (ResolutionEntered /\ Available # {} /\ MissingInside(RequestedStart))
        => /\ err = ""
           /\ vert_levels_list[1] = NearestInferior(RequestedStart)
           /\ Cardinality(WarningsAbout("bottom level not available, nearest inferior level")) = 1
           /\ \A i \in WarningsAbout("bottom level not available, nearest inferior level") :
                  warning[i].level = NearestInferior(RequestedStart)

\* C4 (as claimed): a requested end inside [lowest, highest] that is not in the
\* labeling is replaced by the smallest available level above it, and one warning
\* naming that level is recorded.
C4_TopSnapsToNearestSuperior ==
    (ResolutionEntered /\ Available # {} /\ MissingInside(RequestedEnd))
        => /\ err = ""
           /\ vert_levels_list[2] = NearestSuperior(RequestedEnd)
           /\ Cardinality(WarningsAbout("top level not available, nearest superior level")) = 1
           /\ \A i \in WarningsAbout("top level not available, nearest superior level") :
                  warning[i].level = NearestSuperior(RequestedEnd)

\* C4, restricted to the runs whose resolution completes (kept as a side check)
C4_TopSnapWhenResolved ==
    (Resolved /\ MissingInside(RequestedEnd))
        => /\ vert_levels_list[2] = NearestSuperior(RequestedEnd)
           /\ Cardinality(WarningsAbout("top level not available, nearest superior level")) = 1

\* the centerline indices whose level code lies in the resolved level range
IncludedIndices ==
    {z_centerline[i] : i \in {j \in 1..Len(z_centerline) :
        LET lev == vertebral_labeling_data[npRound(x_centerline_fit[j])][z_centerline[j]]
        IN  vert_levels_list[1] <= lev /\ lev <= vert_levels_list[2]}}

\* C5: the slice range returned is [min I, max I], I being exactly the centerline
\* indices whose level code, read at (round(x_fit), z), lies in the resolved range.
C5_SliceRangeIsMinMaxOfIncluded ==
    (pc = "vert_returned")
        => /\ Len(slices) = 2
           /\ IncludedIndices # {}
           /\ int(slices[1]) = SetMin(IncludedIndices)
           /\ int(slices[2]) = SetMax(IncludedIndices)
C5_Witness ==
    /\ pc = "vert_returned"
    /\ Cardinality(IncludedIndices) = 2
    /\ 0 \notin IncludedIndices
    /\ int(slices[1]) < int(slices[2])

\* C6 (as claimed): when no centerline sample has a level code in the resolved
\* range, the mapper ends with the dedicated EmptyLevelRangeError and reports no
\* slice range.
C6_EmptyRangeIsDedicatedError ==
    ((pc = "vert_find" /\ err # "") \/ pc = "vert_returned")
        => (IncludedIndices = {} => err = "EmptyLevelRangeError" /\ slices = EmptyString)

\* ------------------------------------------------------- compute_csa claims
\* the averaging stage has been left, by an error or by its end
AveragingFailed == pc = "csa_average" /\ err # ""
AveragingDone == pc \in {"csa_cleanup", "done"}

\* a ':'-separated range that is not start:end with start <= end
StartExceedsEnd(fields) ==
    Len(fields) = 2 /\ IsNumeric(fields[1]) /\ IsNumeric(fields[2])
        /\ int(fields[1]) > int(fields[2])
LevelRangeInvalid(fields) == Len(fields) > 2 \/ StartExceedsEnd(fields)
SliceRangeInvalid(fields) ==
    \/ Len(fields) > 2
    \/ Len(fields) = 1
    \/ (Len(fields) = 2 /\ fields[2] = <<>>)
    \/ StartExceedsEnd(fields)
\* the range the averages are asked over is invalid: the levels when a labeling
\* file comes with them, the slices when no levels are asked for
InvalidRangeRequested ==
    \/ /\ vertebral_levels # EmptyString
       /\ fname_vertebral_labeling # ""
       /\ LevelRangeInvalid(vertebral_levels)
    \/ /\ vertebral_levels = EmptyString
       /\ slices # EmptyString
       /\ SliceRangeInvalid(slices)

\* C7 (as claimed): a level range or a slice range whose start is greater than its
\* end, or whose string is malformed, is rejected with an error, and neither the
\* mean CSA nor the volume is reported for it.
C7_InvalidRangeIsRejected ==
    InvalidRangeRequested => (~AveragingDone /\ results_files = <<>>)

\* C8: levels asked for without a labeling file end the run in an error, and
\* neither the mean CSA report nor the volume report is written.
C8_LevelsWithoutLabelingFile ==
    (vertebral_levels # EmptyString /\ fname_vertebral_labeling = "")
        => /\ ~AveragingDone
           /\ results_files = <<>>
           /\ AveragingFailed => err = "exit"
C8_Witness ==
    /\ vertebral_levels # EmptyString
    /\ fname_vertebral_labeling = ""
    /\ slices # EmptyString
    /\ AveragingFailed
    /\ err = "exit"
    /\ csa_per_slice_file # <<>>

CosOfSlice(n) ==
    CosAngle(normalize(<<x_centerline_deriv[n], 0, z_centerline_deriv[n]>>))

\* C10 (as claimed): for every slice, the cosine multiplied into the CSA lies in
\* [0, 1] and the CSA is >= 0, whatever tangent the fitter returns.
C10_CosineInUnitRangeAndCsaNonNegative ==
    (pc \in {"csa_smooth", "csa_average", "csa_cleanup", "done"})
        => /\ \A n \in 1..Len(x_centerline_deriv) :
                  0 <= CosOfSlice(n) /\ CosOfSlice(n) <= Scale
           /\ \A k \in 1..Len(csa_raw) : csa_raw[k] >= 0

\* -------------------------------------------------- discontinuous segmentations
\* a slice without foreground strictly between the first and the last foreground slice
HasGap ==
    /\ ForegroundSlices(segmentation) # {}
    /\ \E z \in SetMin(ForegroundSlices(segmentation))..SetMax(ForegroundSlices(segmentation)) :
           z \notin ForegroundSlices(segmentation)
SliceLoopLeft == pc \notin {"csa_start", "centerline_start", "length_start"}
SliceLoopFault ==
    pc \in {"csa_start", "centerline_start"} /\ err \in {"IndexError", "NameError"}

\* C11 (as claimed): for a segmentation with a gap, compute_csa and
\* extract_centerline flag the discontinuity with a warning and run on; they never
\* end with an index-out-of-range or unbound-variable fault.
C11_GapIsFlaggedNotFatal ==
    (HasGap /\ name_process \in {"csa", "centerline"})
        => /\ ~SliceLoopFault
           /\ SliceLoopLeft => "segmentation does not seem continuous" \in printed

\* C11, for compute_csa alone
C11_GapInComputeCsa ==
    (HasGap /\ name_process = "csa")
        => /\ ~SliceLoopFault
           /\ SliceLoopLeft => "segmentation does not seem continuous" \in printed

\* the slices of the index range whose derivative lookup failed
TangentMissing(k) == k > Len(x_centerline_deriv)
\* the CSA of the k-th slice of the range under theta = 0
AxisAlignedCsa(k) == NumberVoxels(segmentation, min_z_index + k - 1) * px * py
\* the per-slice report has no row for the k-th slice of the range
RowExcluded(k) ==
    /\ pc \in {"csa_average", "csa_cleanup", "done"}
    /\ \A r \in 1..Len(csa_per_slice_file) :
           int(csa_per_slice_file[r].index) # min_z_index + k - 1

\* C12 (as claimed): for every slice whose derivative lookup fails, a warning is
\* emitted and the slice is either left out or given the CSA of theta = 0 (voxel
\* sum x px x py); its CSA is never computed from the tangent of another slice.
C12_MissingTangentIsAxisAligned ==
    (name_process = "csa" /\ pc # "csa_start")
        => \A k \in 1..Len(csa_raw) :
               TangentMissing(k)
                   => /\ "segmentation does not seem continuous" \in printed
                      /\ RowExcluded(k) \/ csa_raw[k] = AxisAlignedCsa(k)

\* ------------------------------------------------------------ the aggregates
\* the mean-CSA report and the volume report of a run that wrote them
MeanReport == results_files[1]
VolumeReport == results_files[2]
\* the slice range the averages were taken over, and the CSA rows inside it
AveragedLo == ParseSlices(slices).lo
AveragedHi == ParseSlices(slices).hi
AveragedCsa == SelectedCsa(csa_per_slice_file, AveragedLo, AveragedHi)
\* the standard deviation with an N-1 denominator
SampleStd(values) ==
    LET variance == FDivInt(FSum(SquaredDeviations(values)), Len(values) - 1)
    IN  IF IsNaN(variance) THEN NaN ELSE ISqrt(variance)

\* C13 (as claimed): the reported standard deviation is the sample standard
\* deviation (N-1 denominator) of the CSA of the N selected slices, and the
\* reported mean is the arithmetic mean of those N values.
C13_SampleStandardDeviation ==
    (name_process = "csa" /\ results_files # <<>>)
        => /\ MeanReport.mean = Mean(AveragedCsa)
           /\ MeanReport.std = SampleStd(AveragedCsa)

\* C13, the mean alone
C13_MeanIsArithmeticMean ==
    (name_process = "csa" /\ results_files # <<>>)
        => MeanReport.mean = Mean(AveragedCsa)

\* the volume of the segmentation as read from the file, over the averaged slices
VolumeOfInput == VoxelsInSlices(segmentation, AveragedLo, AveragedHi) * px * py * pz

\* C14 (as claimed): the reported volume over [a, b] is the number of voxels of the
\* input segmentation in slices a..b times px x py x pz, whatever numeric type the
\* segmentation is stored in.
C14_VolumeCountsInputVoxels ==
    (name_process = "csa" /\ Len(results_files) = 2)
        => VolumeReport.mean = VolumeOfInput

\* C14, for the segmentations that are not stored as float32
C14_VolumeOfIntegerSegmentation ==
    (name_process = "csa" /\ Len(results_files) = 2 /\ seg_dtype # "float32")
        => VolumeReport.mean = VolumeOfInput

\* C28 (as claimed): building the CSA volume leaves data_seg unchanged: when the
\* voxels of the volume are summed (line 608), data_seg holds the segmentation as it
\* was read, for every numeric type of the input, float32 included.
C28_CsaVolumeLeavesSegmentation ==
    (name_process = "csa" /\ Len(results_files) = 2) => data_seg = segmentation

\* C28, for the segmentations that are not stored as float32 (kept as a side check)
C28_IntegerSegmentationIsLeft ==
    (name_process = "csa" /\ Len(results_files) = 2 /\ seg_dtype # "float32")
        => data_seg = segmentation

\* ------------------------------------------------------- the temporary folder
RunEnded == err # "" \/ pc \in {"done", "centerline_done", "length_done"}

\* C15 (as claimed): for each of the processes centerline, csa and length, the
\* temporary folder is gone at every exit, normal or by an error, unless the -r
\* option is 0.
C15_TemporaryFolderRemoved ==
    (RunEnded /\ tmp_folder) => remove_temp_files = 0

\* C15, for the normal completion of compute_csa and extract_centerline
C15_RemovedOnCompletion ==
    (pc \in {"done", "centerline_done"} /\ remove_temp_files # 0) => ~tmp_folder

\* ------------------------------------------------------------- the reports
DiscontinuityWarning == "segmentation does not seem continuous"
HeaderWarnings(report) == {report.warnings[j].msg : j \in 1..Len(report.warnings)}

\* C16 (as claimed): every warning raised during a compute_csa run is in the
\* header of the mean-CSA report and of the volume report, and a run with warnings
\* still writes both reports.
C16_WarningsReachTheReports ==
    (name_process = "csa" /\ pc \in {"csa_cleanup", "done"}
            /\ ~(slices = EmptyString /\ vertebral_levels = EmptyString))
        => /\ Len(results_files) = 2
           /\ printed \subseteq HeaderWarnings(MeanReport)
           /\ printed \subseteq HeaderWarnings(VolumeReport)

\* C16, for the warnings of the level resolution alone
C16_LevelWarningsReachTheReports ==
    (name_process = "csa" /\ pc \in {"csa_cleanup", "done"}
            /\ ~(slices = EmptyString /\ vertebral_levels = EmptyString))
        => /\ Len(results_files) = 2
           /\ (printed \ {DiscontinuityWarning}) \subseteq HeaderWarnings(MeanReport)
           /\ (printed \ {DiscontinuityWarning}) \subseteq HeaderWarnings(VolumeReport)

\* C17 (as claimed): every report written by save_results after averaging over a
\* selected slice range records that range in its "Slices (z)" header line.
C17_ReportsRecordTheSliceRange ==
    (name_process = "csa")
        => \A i \in 1..Len(results_files) : results_files[i].slices = slices

\* C17, for the volume report alone
C17_VolumeReportRecordsTheSliceRange ==
    (name_process = "csa" /\ Len(results_files) = 2) => VolumeReport.slices = slices

LabelTarget == IF label_o # "" THEN label_o ELSE "input"
LabelRunEnded == pc = "label_done" \/ (pc = "label_start" /\ err # "")

\* C19 (as claimed): after a label function that produces an image, the result is
\* written to the file given by -o, or over the input image when -o is not given.
C19_ResultIsSaved ==
    (LabelRunEnded /\ label_function \in ImageFunctions) => LabelTarget \in label_saved

\* the pairs of consecutive labels of the image, by the index of their first label
LabelPairs == 0..(Len(coordinates_input) - 2)
\* the distance between the labels of pair i is larger than max_dist_mm
DistanceIsLarger(i) ==
    SquaredDistance(coordinates_input[i + 1], coordinates_input[i + 2]) * Scale * Scale
        > max_dist_mm * max_dist_mm

\* C21 (as claimed): check_distance_between_labels warns about a pair of consecutive
\* labels exactly when their Euclidean distance is larger than max_dist_mm.
C21_WarnsExactlyWhenLarger ==
    (pc = "distance_done")
        => \A i \in LabelPairs : (i \in distance_warnings) <=> DistanceIsLarger(i)

\* C21, as the code has it (kept as a side check): the warning is given exactly when
\* the distance is smaller than max_dist_mm
C21_WarnsExactlyWhenSmaller ==
    (pc = "distance_done")
        => \A i \in LabelPairs :
               (i \in distance_warnings) <=>
                   SquaredDistance(coordinates_input[i + 1], coordinates_input[i + 2])
                       * Scale * Scale < max_dist_mm * max_dist_mm

\* ------------------------------------------------------------ sct_maths claims
\* the run saved its output image
MathsSaved == pc = "maths_done" /\ Len(maths_saved) = 1

\* C22 (as claimed): with -type given, the output image is saved with that numeric
\* type; without -type the type asked of the save is None.
C22_OutputTypeIsTheTypeGiven ==
    MathsSaved => maths_saved[1].dtype = arguments_type

\* C22, the half about a run without -type (kept as a side check)
C22_NoTypeIsNone ==
    (MathsSaved /\ arguments_type = "None") => maths_saved[1].dtype = "None"

\* the data reversed along dimension d
ReversedAlong(data, d) ==
    [x \in MathsRange |-> [y \in MathsRange |-> [z \in MathsRange |->
        IF d = 0 THEN data[(MathsSide - 1) - x][y][z]
        ELSE IF d = 1 THEN data[x][(MathsSide - 1) - y][z]
        ELSE data[x][y][(MathsSide - 1) - z]]]]
\* the run was asked for -symmetrize alone and saved its output
Symmetrized == MathsSaved /\ arguments_sub = None /\ arguments_symmetrize # None

\* C23 (as claimed): -symmetrize d saves the average of the data and of the data
\* reversed along dimension d, an image symmetric along d, for d = 0, 1 and 2.
C23_SymmetricAlongTheDimensionGiven ==
    Symmetrized
        => /\ \A x, y, z \in MathsRange :
                  2 * maths_saved[1].data[x][y][z] =
                      FromInt(maths_data[x][y][z]
                              + ReversedAlong(maths_data, arguments_symmetrize)[x][y][z])
           /\ ReversedAlong(maths_saved[1].data, arguments_symmetrize) = maths_saved[1].data

\* C23 for dimension 0 (kept as a side check)
C23_SymmetricAlongDimension0 ==
    (Symmetrized /\ arguments_symmetrize = 0)
        => ReversedAlong(maths_saved[1].data, 0) = maths_saved[1].data

\* ---------------------------------------------------------- segment_nifti claims
\* segment_nifti has chosen its threshold: it returned, or raised after the choice
ThresholdChosen == pc = "deepseg_done" \/ (pc = "deepseg_start" /\ err # "")
\* the threshold that has precedence: the caller's, then the model's, then the default
ThresholdByPrecedence ==
    IF param_threshold # None THEN param_threshold
    ELSE IF "threshold" \in metadata.keys THEN metadata.threshold
    ELSE DEFAULT_THRESHOLD

\* C24 (as claimed): the threshold applied to the prediction is param.threshold when
\* the caller set one, otherwise the 'threshold' of the model's metadata when there
\* is one, otherwise DEFAULT_THRESHOLD; with the keep-largest-object step off, the
\* image saved is the prediction thresholded at that value.
C24_ThresholdByPrecedence ==
    ThresholdChosen
        => /\ threshold = ThresholdByPrecedence
           /\ (pc = "deepseg_done" /\ ~param_keep_largest_object /\ ThresholdByPrecedence # 0)
                  => deepseg_saved = <<threshold_predictions_nib(prediction, ThresholdByPrecedence)>>

\* C24 for a caller that sets a threshold other than 0, and for a model without
\* threshold when the caller sets none (kept as a side check)
C24_CallerOrDefault ==
    (ThresholdChosen /\ (ThresholdIsSet(param_threshold) \/
                         (param_threshold = None /\ "threshold" \notin metadata.keys)))
        => threshold = ThresholdByPrecedence

\* C25 (as claimed): with param.threshold = 0 the prediction is saved un-thresholded
\* and the keep-largest-object step is skipped with a warning, whatever the metadata
\* of the model.
C25_ZeroDisablesThresholding ==
    (ThresholdChosen /\ param_threshold = 0)
        => /\ err = ""
           /\ deepseg_saved = <<prediction>>
           /\ param_keep_largest_object
                  => "Algorithm 'keep largest object' can only be run on binary segmentation."
                         \in deepseg_log

\* C25 for a model whose metadata has a threshold (kept as a side check)
C25_ZeroDisablesWhenModelHasThreshold ==
    (ThresholdChosen /\ param_threshold = 0 /\ "threshold" \in metadata.keys)
        => /\ err = ""
           /\ deepseg_saved = <<prediction>>
           /\ param_keep_largest_object
                  => "Algorithm 'keep largest object' can only be run on binary segmentation."
                         \in deepseg_log

\* ------------------------------------------------------ sct_compute_mtsat claims
\* main has ended: it returned, or it raised
MtsatEnded == pc = "mtsat_done" \/ (pc = "mtsat_start" /\ err # "")
\* every image is named as a NIfTI file, so that its sidecar has a name
NiftiNames == \A i \in ImageNames : images[i].ext \in {".nii", ".nii.gz"}
\* the sidecar of the image of an option cannot give the value of the option
SidecarLacks(option) ==
    LET image == images[ImageOf(option)]
    IN  ~image.json_exists \/ FieldOf(option) \notin image.json_keys
\* the options whose value must come from a sidecar that cannot give it
Unresolvable == {o \in ScanOptionNames : argv[o] = None /\ SidecarLacks(o)}

\* C26 (as claimed): a scan parameter given on the command line is used and the
\* sidecar is not consulted for it; a parameter not given comes from the sidecar of
\* its image; and when that sidecar is missing or lacks the field the run fails with
\* FileNotFoundError or KeyError before compute_mtsat is called.
C26_ScanParametersResolved ==
    MtsatEnded
        => /\ \A o \in ScanOptionNames :
                  argv[o] # None => (args[o] = argv[o] /\ o \notin sidecar_reads)
           /\ \A k \in 1..Len(compute_mtsat_calls), o \in ScanOptionNames :
                  compute_mtsat_calls[k][o] =
                      (IF argv[o] # None THEN argv[o] ELSE SidecarValue(o))
           /\ (NiftiNames /\ Unresolvable # {})
                  => (err \in {"FileNotFoundError", "KeyError"} /\ compute_mtsat_calls = <<>>)

\* C26 without the case of a sidecar that lacks the field (kept as a side check)
C26_WhenNoFieldIsLacking ==
    (MtsatEnded /\ \A o \in ScanOptionNames, i \in ImageNames :
                      images[i].json_exists => images[i].json_keys = {"RepetitionTime", "FlipAngle"})
        => /\ \A o \in ScanOptionNames :
                  argv[o] # None => (args[o] = argv[o] /\ o \notin sidecar_reads)
           /\ \A k \in 1..Len(compute_mtsat_calls), o \in ScanOptionNames :
                  compute_mtsat_calls[k][o] =
                      (IF argv[o] # None THEN argv[o] ELSE SidecarValue(o))
           /\ (NiftiNames /\ Unresolvable # {})
                  => (err \in {"FileNotFoundError", "KeyError"} /\ compute_mtsat_calls = <<>>)

\* ------------------------------------------------- level resolution as a whole
\* the endpoints of the request the resolution has replaced by another level
ChangedEndpoints ==
    {k \in 1..2 : vert_levels_list[k] # (IF k = 1 THEN RequestedStart ELSE RequestedEnd)}

\* the resolution of the levels raised
ResolutionRaised == pc = "vert_resolve" /\ err # ""

\* C27 (as claimed): for every request start <= end and every non-empty set of
\* available levels, the resolution ends with both endpoints in the available set,
\* start <= end, and as many warnings as endpoints that differ from the request.
C27_ResolvedEndpointsAreAvailable ==
    (ResolutionEntered /\ Available # {})
        => /\ ~ResolutionRaised
           /\ vert_levels_list[1] \in Available
           /\ vert_levels_list[2] \in Available
           /\ vert_levels_list[1] <= vert_levels_list[2]
           /\ Len(warning) = Cardinality(ChangedEndpoints)

\* C27 for the requests whose start, once clamped, is an available level, so that
\* the bottom snap of lines 713-723 does not run (kept as a side check)
C27_WhenBottomSnapDoesNotRun ==
    (ResolutionEntered /\ Available # {}
        /\ (RequestedStart \in Available \/ RequestedStart < SetMin(Available)))
        => /\ ~ResolutionRaised
           /\ vert_levels_list[1] \in Available
           /\ vert_levels_list[2] \in Available
           /\ vert_levels_list[1] <= vert_levels_list[2]
           /\ Len(warning) = Cardinality(ChangedEndpoints)

====
